---- MODULE Spec2Model ----
(***************************************************************************)
(* BookTopia reading-challenge tracker: the reading-log module in its two  *)
(* backend variants (src/js/reading-log.js against a relational store with *)
(* UNIQUE(user_id, log_date), src/unnamed/part_002 against a document      *)
(* store without it), the date utilities of src/js/supabase-config.js and  *)
(* the statistics engine.                                                  *)
(*                                                                         *)
(* Time is counted in minutes since the epoch (UTC).  A calendar date      *)
(* string 'YYYY-MM-DD' is modelled by its day number (days since the       *)
(* epoch); string equality and order on such strings are equality and      *)
(* order on day numbers.  A JavaScript Date is modelled by its instant.    *)
(* A JavaScript number is modelled by a record [h, nan]: the value h/2     *)
(* (so halves are representable), or NaN when nan is TRUE.                 *)
(***************************************************************************)
EXTENDS Integers, Sequences, FiniteSets, TLC

\* ---------------------------------------------------------------- bounds
\* once the store has handed out this many ids, no further call goes on to
\* its insert (calls that are rejected before the insert stay possible)
MaxLogs == 2
\* number of clock advances
MaxTicks == 1
\* day number of the first instant of a run
StartDay == 10
\* statistics inputs: largest day number and longest log array
MaxStatDay == 5
MaxStatLogs == 4
\* leaderboard inputs: days in a month, entries in a small store
MonthDays == 30
MaxBoardLogs == 3
\* AppwriteQuery.limit(100) in getLeaderboard of the document variant
FetchLimit == 100
\* getUserLogs(userId, limit = 50)
UserLogsLimit == 50
\* getLeaderboard(10) of the dashboard
BoardLimit == 10

Clients == {"c1", "c2"}
Users == {"u1", "u2"}
Backends == {"relational", "document"}

MinutesPerDay == 24 * 60
\* one clock advance: 18 hours, so that successive instants fall on
\* different times of day and different days
TickMinutes == 18 * 60
\* local time-zone offsets, minutes east of UTC (UTC-5, UTC, UTC+5:30)
TzOffsets == {0 - 300, 0, 330}

\* ------------------------------------------------------ JavaScript numbers
Num(n) == [h |-> 2 * n, nan |-> FALSE]
Half(n) == [h |-> 2 * n + 1, nan |-> FALSE]
NaN == [h |-> 0, nan |-> TRUE]
\* x < n and x > n for an integer n: every comparison with NaN is false
JsLt(x, n) == ~x.nan /\ x.h < 2 * n
JsGt(x, n) == ~x.nan /\ x.h > 2 * n
IsInteger(x) == ~x.nan /\ x.h % 2 = 0
\* parseInt of a non-negative number: the digits before the decimal point
parseInt(x) == IF x.nan THEN NaN ELSE Num(x.h \div 2)
IntOf(x) == x.h \div 2

\* page counts offered to addReadingLog / updateReadingLog:
\* NaN, 0, 1, 1.5, 1000, 1001
PageInputs == {NaN, Num(0), Num(1), Half(1), Num(1000), Num(1001)}

\* ------------------------------------------------------------- messages
ErrDateRange == "You can only log entries for today or the past 3 days"
ErrPages == "Pages must be between 1 and 1000"
ErrDupPreCheck == "You already have an entry for this date. Please edit it instead."
ErrDupConstraint == "You already have an entry for this date"
ErrBackend == "backend error"
ErrNotFound == "not found"
Ok == "ok"
None == "none"

VARIABLES
    backend,    \* which variant of the reading-log module is loaded
    currentUser,\* per client (browser session): the signed-in user
    tzOffset,   \* the browser's local time-zone offset, minutes east of UTC
    now,        \* the current instant, minutes since the epoch
    ticks,      \* clock advances so far
    logs,       \* the reading_logs table / collection
    nextId,     \* next id the backend hands out
    calls,      \* per client: the call in flight and its last outcome
    logsArg,    \* statistics engine: the array handed to calculateStats
    statsOut,   \* statistics engine: the record calculateStats returned
    statsPc,    \* statistics engine: "idle" before the call, "returned" after
    profiles,   \* the profiles table / collection
    boardArg,   \* leaderboard: the arguments of the last call
    boardOut,   \* leaderboard: the array getLeaderboard returned
    rankOut,    \* leaderboard: the number getUserRank returned
    boardPc,    \* leaderboard: "idle" before the call, then which call returned
    ui,         \* dashboard, per client: the handler running in the page
    shown,      \* dashboard, per client: what the page displays
    accounts,   \* the ids of the accounts of the authentication service
    authOut,    \* authentication module: the last call and its outcome
    collation,  \* document store: how a string equality query compares letters
    sub,        \* backend substitution: the call tried on both variants
    sb          \* the SDK script, the client and the calls of getSupabase

authVars == <<accounts, authOut, collation>>
\* the state outside the reading-log calls and the statistics engine
extVars == <<profiles, boardArg, boardOut, rankOut, boardPc, ui, shown, authVars, sub, sb>>

vars == <<backend, currentUser, tzOffset, now, ticks, logs, nextId, calls, logsArg, statsOut, statsPc, extVars>>

\* ------------------------------------------------------- date utilities
\* Date.getFullYear/getMonth/getDate: the local calendar day of an instant
LocalDay(t) == (t + tzOffset) \div MinutesPerDay
\* formatDateForInput(date): the local calendar day as 'YYYY-MM-DD'
formatDateForInput(t) == LocalDay(t)
\* new Date('YYYY-MM-DD'): a date-only ISO string is read as UTC midnight
NewDate(d) == d * MinutesPerDay
\* date.setHours(0, 0, 0, 0): local midnight of the instant's local day
setHours0(t) == LocalDay(t) * MinutesPerDay - tzOffset
\* date.setDate(date.getDate() - n)
setDateBack(t, n) == t - n * MinutesPerDay
getToday == formatDateForInput(now)

isDateInRange(dateString, daysBack) ==
    LET today == setHours0(now)
        checkDate == setHours0(NewDate(dateString))
        minDate == setDateBack(today, daysBack)
    IN  checkDate >= minDate /\ checkDate <= today

\* -------------------------------------------------------------- backend
LogsFor(u, d) == {l \in logs : l.user_id = u /\ l.log_date = d}
NoLog == [id |-> 0, user_id |-> "none", log_date |-> 0, pages_read |-> 0]
\* a lookup that never finds the entry
getLogByDate_NeverFound(u, d) == NoLog
\* getLogByDate: the matching entry (the first one the backend lists), or null
getLogByDate(u, d) ==
    IF LogsFor(u, d) = {} THEN NoLog
    ELSE CHOOSE l \in LogsFor(u, d) : \A m \in LogsFor(u, d) : l.id <= m.id

\* no uniqueness constraint in either backend
UniqueViolation_Off(u, d) == FALSE
\* a uniqueness constraint in both backends
UniqueViolation_Both(u, d) == LogsFor(u, d) /= {}
\* UNIQUE(user_id, log_date) of the relational schema
UniqueViolation(u, d) == backend = "relational" /\ LogsFor(u, d) /= {}
\* the value the variant sends as pages_read
SentPages(p) == IF backend = "document" THEN parseInt(p) ELSE p
\* pages_read is an integer column (INTEGER NOT NULL); the document
\* collection is taken to declare the same attribute.  A value that is no
\* integer (1.5, or NaN which JSON carries as null) is refused by the backend
TypeViolation(p) == ~IsInteger(SentPages(p))

IdleCall == [pc |-> "idle", userId |-> "none", logDate |-> 0,
             pagesRead |-> NaN, result |-> None]

NoBoardArg == [limit |-> 0, userId |-> "none", ok |-> TRUE]
NoStats == [totalPages |-> 0, daysLogged |-> 0, avgPages |-> 0,
            currentStreak |-> 0, longestStreak |-> 0]
\* no handler running: the Add Entry button enabled, no toast shown yet
IdleUi == [pc |-> "idle", kind |-> "none", logId |-> 0, logDate |-> 0, pages |-> NaN,
           logBtnDisabled |-> FALSE, toast |-> None]
\* the page of a user without entries
EmptyPage == [userLogs |-> <<>>, stats |-> NoStats, leaderboard |-> <<>>, rank |-> 0,
              progress |-> 0]
\* a profile per user, the username spelled like the id; no leaderboard
\* call yet; the pages loaded on an empty store
\* calls of getSupabase a page makes
MaxCalls == 3
\* the SDK script still loading, no client, no call of getSupabase made
NoSdk == [script |-> "loading", supabase |-> "null",
          promise |-> [k \in 1 .. MaxCalls |-> "none"],
          value |-> [k \in 1 .. MaxCalls |-> "null"],
          listening |-> [k \in 1 .. MaxCalls |-> FALSE],
          timer |-> [k \in 1 .. MaxCalls |-> FALSE]]
\* no call singled out: the calls run on the variant the program started with
NoSub == [phase |-> "run", kind |-> "none", logDate |-> 0, logId |-> 0, pages |-> NaN,
          logs |-> {}, nextId |-> 0, result |-> None, after |-> {}, stats |-> NoStats]
NoAuthOut == [op |-> "none", userId |-> "none", username |-> "none",
              available |-> FALSE, result |-> None]
ExtInit ==
    /\ accounts = Users
    /\ authOut = NoAuthOut
    /\ collation = "sensitive"
    /\ sub = NoSub
    /\ sb = NoSdk
    /\ ui = [c \in Clients |-> IdleUi]
    /\ shown = [c \in Clients |-> EmptyPage]
    /\ profiles = {[id |-> u, username |-> u] : u \in Users}
    /\ boardArg = NoBoardArg
    /\ boardOut = <<>>
    /\ rankOut = 0
    /\ boardPc = "idle"

Init ==
    /\ ExtInit
    /\ backend \in Backends
    /\ currentUser \in [Clients -> Users]
    /\ currentUser["c1"] = "u1"
    /\ tzOffset \in TzOffsets
    /\ now = StartDay * MinutesPerDay
    /\ ticks = 0
    /\ logs = {}
    /\ nextId = 1
    /\ calls = [c \in Clients |-> IdleCall]
    /\ logsArg = <<>>
    /\ statsOut = [totalPages |-> 0, daysLogged |-> 0, avgPages |-> 0,
                   currentStreak |-> 0, longestStreak |-> 0]
    /\ statsPc = "idle"

Finish(c, res) == calls' = [calls EXCEPT ![c] = [IdleCall EXCEPT !.result = res]]

\* no page check
PagesRejected_Off(p) == FALSE
\* the upper limit only
PagesRejected_UpperOnly(p) == JsGt(p, 1000)
\* the page check both mutations make: pagesRead < 1 || pagesRead > 1000
PagesRejected(p) == JsLt(p, 1) \/ JsGt(p, 1000)

\* addReadingLog up to the answer of its lookup: the two validations, then
\* await getLogByDate(userId, logDate).  The validations read only the clock
\* and the lookup only the store, so taking them in one step loses no outcome.
AddStart(c, d, p) ==
    /\ calls[c].pc = "idle"
    /\ IF ~isDateInRange(d, 3)
         THEN calls' = [calls EXCEPT ![c] = [IdleCall EXCEPT !.result = ErrDateRange]]
       ELSE IF PagesRejected(p)
         THEN calls' = [calls EXCEPT ![c] = [IdleCall EXCEPT !.result = ErrPages]]
       ELSE IF getLogByDate(currentUser[c], d) /= NoLog
         THEN calls' = [calls EXCEPT ![c] = [IdleCall EXCEPT !.result = ErrDupPreCheck]]
       ELSE /\ nextId <= MaxLogs
            /\ calls' = [calls EXCEPT ![c] = [pc |-> "insert", userId |-> currentUser[c],
                                              logDate |-> d, pagesRead |-> p, result |-> None]]
    /\ UNCHANGED <<backend, currentUser, tzOffset, now, ticks, logs, nextId, logsArg, statsOut, statsPc, extVars>>

\* addReadingLog: the insert / createDocument and the mapping of its error
AddInsert(c) ==
    LET u == calls[c].userId
        d == calls[c].logDate
        p == calls[c].pagesRead
    IN  /\ calls[c].pc = "insert"
        /\ IF TypeViolation(p)
             THEN /\ Finish(c, ErrBackend)
                  /\ UNCHANGED <<logs, nextId>>
           ELSE IF UniqueViolation(u, d)
             THEN /\ Finish(c, ErrDupConstraint)
                  /\ UNCHANGED <<logs, nextId>>
           ELSE /\ logs' = logs \cup {[id |-> nextId, user_id |-> u, log_date |-> d,
                                       pages_read |-> IntOf(SentPages(p))]}
                /\ nextId' = nextId + 1
                /\ Finish(c, Ok)
        /\ UNCHANGED <<backend, currentUser, tzOffset, now, ticks, logsArg, statsOut, statsPc, extVars>>

\* updateReadingLog(logId, pagesRead): the page check, then the backend's
\* update of pages_read on the row / document with that id.  No entry with
\* that id: .single() reports an error, updateDocument answers 404.
UpdateReadingLog(c, id, p) ==
    /\ calls[c].pc = "idle"
    /\ IF PagesRejected(p)
         THEN /\ calls' = [calls EXCEPT ![c] = [IdleCall EXCEPT !.result = ErrPages]]
              /\ UNCHANGED logs
       ELSE IF TypeViolation(p)
         THEN /\ calls' = [calls EXCEPT ![c] = [IdleCall EXCEPT !.result = ErrBackend]]
              /\ UNCHANGED logs
       ELSE IF \A l \in logs : l.id /= id
         THEN /\ calls' = [calls EXCEPT ![c] = [IdleCall EXCEPT !.result = ErrNotFound]]
              /\ UNCHANGED logs
       ELSE /\ logs' = {IF l.id = id THEN [l EXCEPT !.pages_read = IntOf(SentPages(p))] ELSE l : l \in logs}
            /\ calls' = [calls EXCEPT ![c] = [IdleCall EXCEPT !.result = Ok]]
    /\ UNCHANGED <<backend, currentUser, tzOffset, now, ticks, nextId, logsArg, statsOut, statsPc, extVars>>

\* deleteReadingLog(logId).  No entry with that id: the relational delete
\* matches no row and reports no error, deleteDocument answers 404.
DeleteReadingLog(c, id) ==
    /\ calls[c].pc = "idle"
    /\ IF (\A l \in logs : l.id /= id) /\ backend = "document"
         THEN calls' = [calls EXCEPT ![c] = [IdleCall EXCEPT !.result = ErrNotFound]]
         ELSE calls' = [calls EXCEPT ![c] = [IdleCall EXCEPT !.result = Ok]]
    /\ logs' = {l \in logs : l.id /= id}
    /\ UNCHANGED <<backend, currentUser, tzOffset, now, ticks, nextId, logsArg, statsOut, statsPc, extVars>>

\* time passes
Tick ==
    /\ ticks < MaxTicks
    /\ ticks' = ticks + 1
    /\ now' = now + TickMinutes
    /\ UNCHANGED <<backend, currentUser, tzOffset, logs, nextId, calls, logsArg, statsOut, statsPc, extVars>>

\* dates offered to addReadingLog: the two ends of the allowed window and
\* the first day outside it on either side
DateInputs == {getToday - 4, getToday - 3, getToday, getToday + 1}
\* ids offered to updateReadingLog / deleteReadingLog: the dashboard takes
\* them from the signed-in user's own history, so an id is that of one of
\* the user's entries or of no entry at all (stale or unknown)
IdInputs(c) == {l.id : l \in {m \in logs : m.user_id = currentUser[c]}} \cup {nextId}

Next ==
    \/ \E c \in Clients, d \in DateInputs, p \in PageInputs : AddStart(c, d, p)
    \/ \E c \in Clients : AddInsert(c)
    \/ \E c \in Clients : \E id \in IdInputs(c), p \in PageInputs : UpdateReadingLog(c, id, p)
    \/ \E c \in Clients : \E id \in IdInputs(c) : DeleteReadingLog(c, id)
    \/ Tick

Spec == Init /\ [][Next]_vars

\* Concurrent creation on its own: addReadingLog calls of the clients,
\* interleaved at will between the lookup and the insert, at one instant.
NextAdd ==
    \/ \E c \in Clients, d \in DateInputs, p \in PageInputs : AddStart(c, d, p)
    \/ \E c \in Clients : AddInsert(c)

SpecAdd == Init /\ [][NextAdd]_vars

\* One call at a time: a single client issues its calls one after another.
NextSeq ==
    \/ \E d \in DateInputs, p \in PageInputs : AddStart("c1", d, p)
    \/ AddInsert("c1")
    \/ \E id \in IdInputs("c1"), p \in PageInputs : UpdateReadingLog("c1", id, p)
    \/ \E id \in IdInputs("c1") : DeleteReadingLog("c1", id)
    \/ Tick

SpecSeq == Init /\ [][NextSeq]_vars

\* ------------------------------------------------------ statistics engine
\* truncation in place of rounding
MathRound_Floor(n, d) == n \div d
\* Math.round(n / d) for d > 0: the integer nearest to n/d, halves upward
MathRound(n, d) == (2 * n + d) \div (2 * d)

\* [...logs].sort((a, b) => new Date(a.log_date) - new Date(b.log_date)):
\* ascending by date; Array.prototype.sort is stable
RECURSIVE InsertByDate(_, _)
InsertByDate(x, s) ==
    IF s = <<>> THEN <<x>>
    ELSE IF NewDate(x.log_date) - NewDate(s[Len(s)].log_date) >= 0 THEN Append(s, x)
    ELSE Append(InsertByDate(x, SubSeq(s, 1, Len(s) - 1)), s[Len(s)])

RECURSIVE SortByDate(_)
SortByDate(s) ==
    IF s = <<>> THEN <<>>
    ELSE InsertByDate(s[Len(s)], SortByDate(SubSeq(s, 1, Len(s) - 1)))

\* new Set(sortedLogs.map(log => log.log_date))
LoggedDates(s) == {s[i].log_date : i \in 1 .. Len(s)}

\* a walk that always starts at today
StreakStart_NoGrace(loggedDates) == setHours0(now)
\* where the backward walk starts: today, or yesterday when today is not logged
StreakStart(loggedDates) ==
    LET checkDate == setHours0(now)
    IN  IF formatDateForInput(checkDate) \notin loggedDates
          THEN setDateBack(checkDate, 1)
          ELSE checkDate

\* while (true) { if (loggedDates.has(dateStr)) { currentStreak++; back one day } else break }
RECURSIVE WalkBack(_, _, _)
WalkBack(loggedDates, checkDate, currentStreak) ==
    IF formatDateForInput(checkDate) \in loggedDates
      THEN WalkBack(loggedDates, setDateBack(checkDate, 1), currentStreak + 1)
      ELSE currentStreak

Max(a, b) == IF a >= b THEN a ELSE b

\* for (const log of sortedLogs): entry i, with the running longestStreak and
\* tempStreak; prevDate is the date of entry i - 1, null before the first
RECURSIVE ScanLongest(_, _, _, _)
ScanLongest(sortedLogs, i, longestStreak, tempStreak) ==
    IF i > Len(sortedLogs) THEN Max(longestStreak, tempStreak)
    ELSE IF i = 1 THEN ScanLongest(sortedLogs, 2, longestStreak, 1)
    ELSE LET currentDate == setHours0(NewDate(sortedLogs[i].log_date))
             prevDate == setHours0(NewDate(sortedLogs[i - 1].log_date))
             dayDiff == MathRound(currentDate - prevDate, MinutesPerDay)
         IN  IF dayDiff = 1
               THEN ScanLongest(sortedLogs, i + 1, longestStreak, tempStreak + 1)
               ELSE ScanLongest(sortedLogs, i + 1, Max(longestStreak, tempStreak), 1)

calculateStreaks(logsIn) ==
    IF Len(logsIn) = 0 THEN [currentStreak |-> 0, longestStreak |-> 0]
    ELSE LET sortedLogs == SortByDate(logsIn)
             loggedDates == LoggedDates(sortedLogs)
         IN  [currentStreak |-> WalkBack(loggedDates, StreakStart(loggedDates), 0),
              longestStreak |-> ScanLongest(sortedLogs, 1, 0, 0)]

\* logs.reduce((sum, log) => sum + log.pages_read, 0)
RECURSIVE SumPages(_)
SumPages(s) == IF s = <<>> THEN 0 ELSE SumPages(SubSeq(s, 1, Len(s) - 1)) + s[Len(s)].pages_read

\* calculateStats(logs); a missing array (null) is treated as the empty one
calculateStats(logsIn) ==
    IF Len(logsIn) = 0
      THEN [totalPages |-> 0, daysLogged |-> 0, avgPages |-> 0,
            currentStreak |-> 0, longestStreak |-> 0]
    ELSE LET totalPages == SumPages(logsIn)
             daysLogged == Len(logsIn)
             streaks == calculateStreaks(logsIn)
         IN  [totalPages |-> totalPages, daysLogged |-> daysLogged,
              avgPages |-> MathRound(totalPages, daysLogged),
              currentStreak |-> streaks.currentStreak,
              longestStreak |-> streaks.longestStreak]

\* The statistics engine on its own: calculateStats is handed an array of
\* a user's entries in any order.  Only the document store can return two
\* entries for one date.
StatEntries == [id : {0}, user_id : {"u1"}, log_date : 1 .. MaxStatDay, pages_read : {1, 2}]
RECURSIVE SeqsUpTo(_, _)
SeqsUpTo(S, n) ==
    IF n = 0 THEN {<<>>}
    ELSE LET shorter == SeqsUpTo(S, n - 1)
         IN  shorter \cup {Append(s, x) : s \in {t \in shorter : Len(t) = n - 1}, x \in S}
DistinctDates(s) == \A i, j \in 1 .. Len(s) : i /= j => s[i].log_date /= s[j].log_date

InitStats ==
    /\ ExtInit
    /\ backend \in Backends
    /\ currentUser = [c \in Clients |-> "u1"]
    /\ tzOffset \in TzOffsets
    /\ now = MaxStatDay * MinutesPerDay
    /\ ticks = 0
    /\ logs = {}
    /\ nextId = 1
    /\ calls = [c \in Clients |-> IdleCall]
    /\ logsArg \in SeqsUpTo(StatEntries, MaxStatLogs)
    /\ backend = "relational" => DistinctDates(logsArg)
    /\ statsOut = [totalPages |-> 0, daysLogged |-> 0, avgPages |-> 0,
                   currentStreak |-> 0, longestStreak |-> 0]
    /\ statsPc = "idle"

CalculateStats ==
    /\ statsPc = "idle"
    /\ statsOut' = calculateStats(logsArg)
    /\ statsPc' = "returned"
    /\ UNCHANGED <<backend, currentUser, tzOffset, now, ticks, logs, nextId, calls, logsArg, extVars>>

NextStats == CalculateStats

SpecStats == InitStats /\ [][NextStats]_vars

\* -------------------------------------------------------------- leaderboard
\* The calendar is taken to have months of MonthDays days: day d lies in
\* month d \div MonthDays, whose first day is MonthDays * (d \div MonthDays).
\* getMonthStart(): new Date(year, month, 1), local midnight of the first
\* day of the local month
getMonthStart == ((LocalDay(now) \div MonthDays) * MonthDays) * MinutesPerDay - tzOffset

\* user ids, as many as the larger leaderboard slice and one more
UserIds ==
  <<
     "u1", "u2", "u3", "u4", "u5", "u6", "u7", "u8", "u9", "u10",
     "u11", "u12", "u13", "u14", "u15", "u16", "u17", "u18", "u19", "u20",
     "u21", "u22", "u23", "u24", "u25", "u26", "u27", "u28", "u29", "u30",
     "u31", "u32", "u33", "u34", "u35", "u36", "u37", "u38", "u39", "u40",
     "u41", "u42", "u43", "u44", "u45", "u46", "u47", "u48", "u49", "u50",
     "u51", "u52", "u53", "u54", "u55", "u56", "u57", "u58", "u59", "u60",
     "u61", "u62", "u63", "u64", "u65", "u66", "u67", "u68", "u69", "u70",
     "u71", "u72", "u73", "u74", "u75", "u76", "u77", "u78", "u79", "u80",
     "u81", "u82", "u83", "u84", "u85", "u86", "u87", "u88", "u89", "u90",
     "u91", "u92", "u93", "u94", "u95", "u96", "u97", "u98", "u99", "u100",
     "u101"
  >>

NoProfile == [id |-> "none", username |-> "none"]
UnknownUser == "Unknown User"
\* getProfile(userId): the profile stored under the user's id, or null
getProfile(userId) ==
    IF \E p \in profiles : p.id = userId
      THEN CHOOSE p \in profiles : p.id = userId
      ELSE NoProfile

\* the rows of a set of entries in the order the store lists them, which
\* is taken to be the order of creation (ids are handed out in that order)
StoreOrder(S) ==
    LET before == [l \in S |-> Cardinality({m \in S : m.id < l.id})]
    IN  [k \in 1 .. Cardinality(S) |-> CHOOSE l \in S : before[l] = k - 1]

\* array.slice(0, n)
Slice(s, n) == SubSeq(s, 1, IF n < Len(s) THEN n ELSE Len(s))

\* .gte('log_date', startDate) / greaterThanEqual('log_date', startDate)
ThisMonth == {l \in logs : l.log_date >= formatDateForInput(getMonthStart)}

\* the rows the query of getLeaderboard returns: the relational select
\* joins each entry with its profile (profiles!inner) and returns every
\* match; the document query returns the first FetchLimit documents
LeaderboardRows ==
    IF backend = "relational"
      THEN StoreOrder({l \in ThisMonth : getProfile(l.user_id) /= NoProfile})
      ELSE Slice(StoreOrder(ThisMonth), FetchLimit)

\* one turn of the loop over the rows: the entry's pages are added to its
\* user's total, which starts at 0 when the user is met for the first time;
\* the values of userTotals are kept in the order of insertion
AddToTotals(userTotals, entry) ==
    LET seen == {k \in 1 .. Len(userTotals) : userTotals[k].userId = entry.user_id}
    IN  IF seen = {}
          THEN Append(userTotals, [userId |-> entry.user_id, totalPages |-> 0 + entry.pages_read])
          ELSE LET k == CHOOSE k \in seen : TRUE
               IN  [userTotals EXCEPT ![k].totalPages = @ + entry.pages_read]

\* the loop over rows[lo .. hi], run as its first half followed by its
\* second half (the test on the length makes the first half's result a
\* value before the second half starts)
RECURSIVE Aggregate(_, _, _, _)
Aggregate(rows, lo, hi, userTotals) ==
    IF lo > hi THEN userTotals
    ELSE IF lo = hi THEN AddToTotals(userTotals, rows[lo])
    ELSE LET mid == (lo + hi) \div 2
             firstHalf == Aggregate(rows, lo, mid, userTotals)
         IN  IF Len(firstHalf) >= 0 THEN Aggregate(rows, mid + 1, hi, firstHalf) ELSE <<>>

\* .sort((a, b) => b.totalPages - a.totalPages): descending by total;
\* Array.prototype.sort is stable.  InsertByTotal puts x into a sorted
\* array behind every element whose total is not smaller.
InsertByTotal(x, s) ==
    LET k == Cardinality({i \in 1 .. Len(s) : s[i].totalPages >= x.totalPages})
    IN  SubSeq(s, 1, k) \o <<x>> \o SubSeq(s, k + 1, Len(s))

\* s[lo .. hi] inserted one by one, in order, into the sorted array
RECURSIVE SortFrom(_, _, _, _)
SortFrom(s, lo, hi, sorted) ==
    IF lo > hi THEN sorted
    ELSE IF lo = hi THEN InsertByTotal(s[lo], sorted)
    ELSE LET mid == (lo + hi) \div 2
             firstHalf == SortFrom(s, lo, mid, sorted)
         IN  IF Len(firstHalf) >= 0 THEN SortFrom(s, mid + 1, hi, firstHalf) ELSE <<>>

\* the array left in the order of insertion
SortByTotal_Unsorted(s) == s
SortByTotal(s) == SortFrom(s, 1, Len(s), <<>>)

\* the display name of a leaderboard entry: the joined profile's username
\* in the relational variant; in the document variant the fetched
\* profile's username, or the placeholder when getProfile returns null
BoardName(userId) ==
    IF backend = "document" /\ getProfile(userId) = NoProfile
      THEN UnknownUser
      ELSE getProfile(userId).username

\* getLeaderboard(limit); ok is whether the query of the entries succeeds
getLeaderboard(limit, ok) ==
    IF ~ok THEN <<>>
    ELSE LET rows == LeaderboardRows
             top == Slice(SortByTotal(Aggregate(rows, 1, Len(rows), <<>>)), limit)
         IN  [index \in 1 .. Len(top) |->
                 [userId |-> top[index].userId,
                  username |-> BoardName(top[index].userId),
                  totalPages |-> top[index].totalPages,
                  rank |-> index]]

\* the default limit of getLeaderboard in place of the larger slice
RankSlice_Default == 10
\* the slice getUserRank asks for: getLeaderboard(100) / getLeaderboard(50)
RankSlice == IF backend = "relational" THEN 100 ELSE 50

\* getUserRank(userId)
\* the rank as one more than the number of users with a larger total
getUserRank_CountAbove(userId, ok) ==
    LET leaderboard == getLeaderboard(RankSlice, ok)
        found == {i \in 1 .. Len(leaderboard) : leaderboard[i].userId = userId}
    IN  IF found = {} THEN 0
        ELSE 1 + Cardinality({j \in 1 .. Len(leaderboard) :
                   \A i \in found : leaderboard[j].totalPages > leaderboard[i].totalPages})
getUserRank(userId, ok) ==
    LET leaderboard == getLeaderboard(RankSlice, ok)
        found == {i \in 1 .. Len(leaderboard) : leaderboard[i].userId = userId}
    IN  IF found = {} THEN 0
        ELSE leaderboard[CHOOSE i \in found : \A j \in found : i <= j].rank

\* ---- stores on which the leaderboard is computed
BoardUsers == {UserIds[i] : i \in 1 .. 3}
\* the instant: 02:00 UTC on the first day of a month, which west of UTC
\* is still the last evening of the month before
BoardNow == MonthDays * MinutesPerDay + 120
\* dates of entries: the first day of that month and the two days before
BoardDates == {MonthDays - 2, MonthDays - 1, MonthDays}
BoardPages == {30, 50}
BoardEntries == [user_id : BoardUsers, log_date : BoardDates, pages_read : BoardPages]

\* the entries of E with ids handed out in some order of creation
WithIds(E) ==
    LET f == CHOOSE f \in [E -> 1 .. Cardinality(E)] : \A a, b \in E : a /= b => f[a] /= f[b]
    IN  {[id |-> f[e], user_id |-> e.user_id, log_date |-> e.log_date,
          pages_read |-> e.pages_read] : e \in E}

\* stores of a few entries
SmallStores == {WithIds(E) : E \in {F \in SUBSET BoardEntries : Cardinality(F) <= MaxBoardLogs}}

\* n users with one entry each on the first day of the month, user i
\* with 200 - i pages
Base(n) ==
    {[id |-> i, user_id |-> UserIds[i], log_date |-> MonthDays, pages_read |-> 200 - i] : i \in 1 .. n}
\* ... and a later entry of the first user on the day before
Crowd(n) ==
    Base(n) \cup {[id |-> n + 1, user_id |-> UserIds[1], log_date |-> MonthDays - 1, pages_read |-> 1]}
\* ... or a last entry, of 1000 pages, by one more user
Late(n) ==
    Base(n) \cup {[id |-> n + 1, user_id |-> UserIds[Len(UserIds)], log_date |-> MonthDays,
                   pages_read |-> 1000]}
\* as many users as a leaderboard slice holds, and one more
CrowdSizes == {50, 51, 100, 101}
\* as many entries as the document query fetches, and one more
LateSizes == {99, 100}

BoardStores == SmallStores \cup {Crowd(n) : n \in CrowdSizes} \cup {Late(n) : n \in LateSizes}

\* users that may lack a profile document: the document collection of
\* entries holds no reference to the profiles; every row of the relational
\* table refers to a profile (user_id REFERENCES profiles(id))
MissingProfiles ==
    IF backend = "document"
      THEN SUBSET ({"u2", UserIds[Len(UserIds)]} \cap {l.user_id : l \in logs})
      ELSE {{}}

InitBoard ==
    /\ backend \in Backends
    /\ currentUser = [c \in Clients |-> "u1"]
    /\ tzOffset \in TzOffsets
    /\ now = BoardNow
    /\ ticks = 0
    /\ logs \in BoardStores
    /\ ((backend = "relational") =>
           (Cardinality({<<l.user_id, l.log_date>> : l \in logs}) = Cardinality(logs)))
    /\ nextId = Cardinality(logs) + 1
    /\ calls = [c \in Clients |-> IdleCall]
    /\ logsArg = <<>>
    /\ statsOut = [totalPages |-> 0, daysLogged |-> 0, avgPages |-> 0,
                   currentStreak |-> 0, longestStreak |-> 0]
    /\ statsPc = "idle"
    /\ \E missing \in MissingProfiles :
           profiles = {[id |-> UserIds[i], username |-> UserIds[i]] :
                          i \in {j \in 1 .. Len(UserIds) : UserIds[j] \notin missing}}
    /\ boardArg = NoBoardArg
    /\ boardOut = <<>>
    /\ rankOut = 0
    /\ boardPc = "idle"
    /\ ui = [c \in Clients |-> IdleUi]
    /\ shown = [c \in Clients |-> EmptyPage]
    /\ accounts = {p.id : p \in profiles} \cup {l.user_id : l \in logs}
    /\ authOut = NoAuthOut
    /\ collation = "sensitive"
    /\ sub = NoSub
    /\ sb = NoSdk

LimitInputs == 1 .. 3

GetLeaderboard(limit, ok) ==
    /\ boardPc = "idle"
    /\ boardArg' = [limit |-> limit, userId |-> "none", ok |-> ok]
    /\ boardOut' = getLeaderboard(limit, ok)
    /\ boardPc' = "leaderboard"
    /\ UNCHANGED <<backend, currentUser, tzOffset, now, ticks, logs, nextId, calls,
                   logsArg, statsOut, statsPc, profiles, rankOut, ui, shown, authVars, sub, sb>>

GetUserRank(userId, ok) ==
    /\ boardPc = "idle"
    /\ boardArg' = [limit |-> RankSlice, userId |-> userId, ok |-> ok]
    /\ rankOut' = getUserRank(userId, ok)
    /\ boardPc' = "rank"
    /\ UNCHANGED <<backend, currentUser, tzOffset, now, ticks, logs, nextId, calls,
                   logsArg, statsOut, statsPc, profiles, boardOut, ui, shown, authVars, sub, sb>>

\* users whose rank is asked for: the first three and the last of each slice
RankInputs == BoardUsers \cup {UserIds[i] : i \in CrowdSizes}

NextBoard ==
    \/ \E limit \in LimitInputs, ok \in BOOLEAN : GetLeaderboard(limit, ok)
    \/ \E userId \in RankInputs, ok \in BOOLEAN : GetUserRank(userId, ok)

SpecBoard == InitBoard /\ [][NextBoard]_vars

\* ------------------------------------------------- editing a stored entry
\* stores met by updateReadingLog: up to MaxLogs entries, dated today, at
\* the far end of the window for new entries, or well before it
EditDates == {getToday - 10, getToday - 3, getToday}
EditEntries == [user_id : Users, log_date : EditDates, pages_read : BoardPages]
EditStores == {WithIds(E) : E \in {F \in SUBSET EditEntries : Cardinality(F) <= MaxLogs}}

InitEdit ==
    /\ ExtInit
    /\ backend \in Backends
    /\ currentUser = [c \in Clients |-> "u1"]
    /\ tzOffset \in TzOffsets
    /\ now = StartDay * MinutesPerDay
    /\ ticks = 0
    /\ logs \in EditStores
    /\ ((backend = "relational") =>
           (Cardinality({<<l.user_id, l.log_date>> : l \in logs}) = Cardinality(logs)))
    /\ nextId = Cardinality(logs) + 1
    /\ calls = [c \in Clients |-> IdleCall]
    /\ logsArg = <<>>
    /\ statsOut = [totalPages |-> 0, daysLogged |-> 0, avgPages |-> 0,
                   currentStreak |-> 0, longestStreak |-> 0]
    /\ statsPc = "idle"

NextEdit == \E id \in IdInputs("c1"), p \in PageInputs : UpdateReadingLog("c1", id, p)

SpecEdit == InitEdit /\ [][NextEdit]_vars

\* One add at a time on a store that holds entries of earlier days
NextOld ==
    \/ \E d \in DateInputs, p \in PageInputs : AddStart("c1", d, p)
    \/ AddInsert("c1")

SpecOld == InitEdit /\ [][NextOld]_vars

\* ---------------------------------------------------------------- dashboard
\* .order('log_date', { ascending: false }): x put into an array sorted by
\* descending date, behind every element whose date is not earlier
InsertByDateDesc(x, s) ==
    LET k == Cardinality({i \in 1 .. Len(s) : s[i].log_date >= x.log_date})
    IN  SubSeq(s, 1, k) \o <<x>> \o SubSeq(s, k + 1, Len(s))

RECURSIVE OrderDescFrom(_, _, _, _)
OrderDescFrom(s, lo, hi, sorted) ==
    IF lo > hi THEN sorted
    ELSE IF lo = hi THEN InsertByDateDesc(s[lo], sorted)
    ELSE LET mid == (lo + hi) \div 2
             firstHalf == OrderDescFrom(s, lo, mid, sorted)
         IN  IF Len(firstHalf) >= 0 THEN OrderDescFrom(s, mid + 1, hi, firstHalf) ELSE <<>>

\* getUserLogs(userId): the user's entries, latest date first, at most
\* UserLogsLimit of them; [] when the query fails
getUserLogs(userId, ok) ==
    IF ~ok THEN <<>>
    ELSE LET rows == StoreOrder({l \in logs : l.user_id = userId})
         IN  Slice(OrderDescFrom(rows, 1, Len(rows), <<>>), UserLogsLimit)

\* what the form fields hold: the digits typed for a page count
FormPages == PageInputs

\* the test both forms make on the parsed page count: !pages || pages < 1
FormRejected(pages) == pages.nan \/ pages.h = 0 \/ JsLt(pages, 1)

\* handleLogSubmit up to its await of addReadingLog
HandleLogSubmit(c, logDate, value) ==
    /\ ui[c].pc = "idle"
    /\ IF FormRejected(parseInt(value))
         THEN /\ ui' = [ui EXCEPT ![c].toast = "Please enter a valid number of pages"]
              /\ UNCHANGED calls
         ELSE /\ ui' = [ui EXCEPT ![c] = [pc |-> "await", kind |-> "add", logId |-> 0,
                                          logDate |-> logDate, pages |-> parseInt(value),
                                          logBtnDisabled |-> TRUE, toast |-> ui[c].toast]]
              /\ calls' = [calls EXCEPT ![c] = IdleCall]
    /\ UNCHANGED <<backend, currentUser, tzOffset, now, ticks, logs, nextId, logsArg, statsOut,
                   statsPc, profiles, boardArg, boardOut, rankOut, boardPc, shown, authVars, sub, sb>>

\* handleEditSubmit up to its await of updateReadingLog
HandleEditSubmit(c, logId, value) ==
    /\ ui[c].pc = "idle"
    /\ IF FormRejected(parseInt(value))
         THEN /\ ui' = [ui EXCEPT ![c].toast = "Please enter a valid number of pages"]
              /\ UNCHANGED calls
         ELSE /\ ui' = [ui EXCEPT ![c] = [pc |-> "await", kind |-> "edit", logId |-> logId,
                                          logDate |-> 0, pages |-> parseInt(value),
                                          logBtnDisabled |-> ui[c].logBtnDisabled,
                                          toast |-> ui[c].toast]]
              /\ calls' = [calls EXCEPT ![c] = IdleCall]
    /\ UNCHANGED <<backend, currentUser, tzOffset, now, ticks, logs, nextId, logsArg, statsOut,
                   statsPc, profiles, boardArg, boardOut, rankOut, boardPc, shown, authVars, sub, sb>>

\* confirmDeleteLog, the question answered with yes, up to its await of
\* deleteReadingLog
ConfirmDeleteLog(c, logId) ==
    /\ ui[c].pc = "idle"
    /\ ui' = [ui EXCEPT ![c] = [pc |-> "await", kind |-> "delete", logId |-> logId,
                                logDate |-> 0, pages |-> NaN,
                                logBtnDisabled |-> ui[c].logBtnDisabled, toast |-> ui[c].toast]]
    /\ calls' = [calls EXCEPT ![c] = IdleCall]
    /\ UNCHANGED <<backend, currentUser, tzOffset, now, ticks, logs, nextId, logsArg, statsOut,
                   statsPc, profiles, boardArg, boardOut, rankOut, boardPc, shown, authVars, sub, sb>>

\* the backend call the handler waits for
Awaited(c, kind) ==
    /\ ui[c].pc = "await"
    /\ ui[c].kind = kind
    /\ calls[c] = IdleCall

AwaitedAddStart(c) == Awaited(c, "add") /\ AddStart(c, ui[c].logDate, ui[c].pages)
AwaitedAddInsert(c) == ui[c].pc = "await" /\ AddInsert(c)
AwaitedUpdate(c) == Awaited(c, "edit") /\ UpdateReadingLog(c, ui[c].logId, ui[c].pages)
AwaitedDelete(c) == Awaited(c, "delete") /\ DeleteReadingLog(c, ui[c].logId)

\* the await resumes whatever the outcome
Acked_Always(c) == TRUE
\* the await resumes in the try block only when the call did not throw
Acked(c) == calls[c].result = Ok

\* no finally block: after an error the button stays as it was
Settle_NoFinally(c) ==
    /\ ui[c].pc = "await"
    /\ calls[c].pc = "idle"
    /\ calls[c].result /= None
    /\ IF Acked(c)
         THEN ui' = [ui EXCEPT ![c].pc = "refreshLogs", ![c].toast = "success"]
         ELSE ui' = [ui EXCEPT ![c] = [IdleUi EXCEPT !.toast = calls[c].result,
                                                    !.logBtnDisabled = ui[c].logBtnDisabled]]
    /\ UNCHANGED <<backend, currentUser, tzOffset, now, ticks, logs, nextId, calls, logsArg,
                   statsOut, statsPc, profiles, boardArg, boardOut, rankOut, boardPc, shown, authVars, sub, sb>>
\* the awaited call has settled: on success the success toast and on to
\* refreshLogs; on an error the catch block shows error.message and the
\* finally block of handleLogSubmit enables the button again
Settle(c) ==
    /\ ui[c].pc = "await"
    /\ calls[c].pc = "idle"
    /\ calls[c].result /= None
    /\ IF Acked(c)
         THEN ui' = [ui EXCEPT ![c].pc = "refreshLogs", ![c].toast = "success"]
         ELSE ui' = [ui EXCEPT ![c] = [IdleUi EXCEPT !.toast = calls[c].result]]
    /\ UNCHANGED <<backend, currentUser, tzOffset, now, ticks, logs, nextId, calls, logsArg,
                   statsOut, statsPc, profiles, boardArg, boardOut, rankOut, boardPc, shown, authVars, sub, sb>>

\* refreshLogs: userLogs = await getUserLogs(currentUser.$id), then the
\* statistics computed from userLogs are displayed
RefreshLogs(c, ok) ==
    /\ ui[c].pc = "refreshLogs"
    /\ shown' = [shown EXCEPT ![c].userLogs = getUserLogs(currentUser[c], ok),
                              ![c].stats = calculateStats(getUserLogs(currentUser[c], ok))]
    /\ ui' = [ui EXCEPT ![c].pc = "refreshLeaderboard"]
    /\ UNCHANGED <<backend, currentUser, tzOffset, now, ticks, logs, nextId, calls, logsArg,
                   statsOut, statsPc, profiles, boardArg, boardOut, rankOut, boardPc, authVars, sub, sb>>

\* getDaysPassedThisMonth(): new Date().getDate(), the local day of the month
getDaysPassedThisMonth == (LocalDay(now) % MonthDays) + 1
\* updateProgress(): the percentage it displays, from the userLogs of the page
updateProgress(userLogs) ==
    LET daysPassed == getDaysPassedThisMonth
        daysWithLogs == Cardinality({userLogs[i].log_date : i \in 1 .. Len(userLogs)})
    IN  IF daysPassed > 0 THEN MathRound(daysWithLogs * 100, daysPassed) ELSE 0

\* refreshLeaderboard: getLeaderboard(10) and getUserRank displayed; then,
\* after a create or a delete, updateProgress(); the handler ends (finally:
\* the Add Entry button enabled again)
RefreshLeaderboard(c, ok) ==
    /\ ui[c].pc = "refreshLeaderboard"
    /\ shown' = [shown EXCEPT ![c].leaderboard = getLeaderboard(BoardLimit, ok),
                              ![c].rank = getUserRank(currentUser[c], ok),
                              ![c].progress = IF ui[c].kind \in {"add", "delete"}
                                                THEN updateProgress(shown[c].userLogs)
                                                ELSE shown[c].progress]
    /\ ui' = [ui EXCEPT ![c] = [IdleUi EXCEPT !.toast = ui[c].toast]]
    /\ UNCHANGED <<backend, currentUser, tzOffset, now, ticks, logs, nextId, calls, logsArg,
                   statsOut, statsPc, profiles, boardArg, boardOut, rankOut, boardPc, authVars, sub, sb>>

\* the refresh throws (an error without a message): the catch block of the
\* handler shows its own text, and the finally block of handleLogSubmit
\* enables the Add Entry button again
RefreshThrows(c) ==
    /\ ui[c].pc \in {"refreshLogs", "refreshLeaderboard"}
    /\ ui' = [ui EXCEPT ![c] = [IdleUi EXCEPT !.toast =
                  IF ui[c].kind = "add" THEN "Failed to add log"
                  ELSE IF ui[c].kind = "edit" THEN "Failed to update log"
                  ELSE "Failed to delete log"]]
    /\ UNCHANGED <<backend, currentUser, tzOffset, now, ticks, logs, nextId, calls, logsArg,
                   statsOut, statsPc, profiles, boardArg, boardOut, rankOut, boardPc, shown,
                   authVars, sub, sb>>

\* the page of one client
NextDash ==
    \/ \E d \in DateInputs, v \in FormPages : HandleLogSubmit("c1", d, v)
    \/ \E id \in IdInputs("c1"), v \in FormPages : HandleEditSubmit("c1", id, v)
    \/ \E id \in IdInputs("c1") : ConfirmDeleteLog("c1", id)
    \/ AwaitedAddStart("c1")
    \/ AwaitedAddInsert("c1")
    \/ AwaitedUpdate("c1")
    \/ AwaitedDelete("c1")
    \/ Settle("c1")
    \/ \E ok \in BOOLEAN : RefreshLogs("c1", ok)
    \/ \E ok \in BOOLEAN : RefreshLeaderboard("c1", ok)

SpecDash == Init /\ [][NextDash]_vars

\* handleLogSubmit goes on after an await: the awaited call settles and the
\* handler resumes, in the try block or in the catch block
Resume(c) ==
    \/ AwaitedAddStart(c)
    \/ AwaitedAddInsert(c)
    \/ Settle(c)
    \/ \E ok \in BOOLEAN : RefreshLogs(c, ok)
    \/ \E ok \in BOOLEAN : RefreshLeaderboard(c, ok)
    \/ RefreshThrows(c)

\* the log form of one page: submits, each run to its end
NextSubmit ==
    \/ \E d \in DateInputs, v \in FormPages : HandleLogSubmit("c1", d, v)
    \/ Resume("c1")

FairSubmit == Init /\ [][NextSubmit]_vars /\ WF_vars(Resume("c1"))

\* ------------------------------------------------------------------ accounts and profiles
\* signUp, createProfile, updateProfile and checkUsernameAvailability of
\* the two authentication modules.  A profile is the pair of its id and
\* its username; the other columns play no part in the calls' outcomes.

ErrTaken == "Username is already taken"
ErrAccount == "Failed to create account"

\* how many accounts the authentication service may come to hold
MaxAccounts == 3
AuthIds == {UserIds[i] : i \in 1 .. MaxAccounts}
Usernames == {"ann", "Ann", "bob"}

\* the username with its letters in lower case
toLowerCase(s) == IF s = "Ann" THEN "ann" ELSE s

\* the profiles a username lookup returns: the relational variant asks
\* with ilike, which ignores letter case; the document variant asks with
\* Query.equal, which compares as the store's collation does
UsernameMatches(username) ==
    IF backend = "relational" \/ collation = "insensitive"
      THEN {p \in profiles : toLowerCase(p.username) = toLowerCase(username)}
      ELSE {p \in profiles : p.username = username}

\* checkUsernameAvailability(username); ok is whether the lookup went
\* through.  A failed lookup is "taken" in the relational variant and
\* "available" in the document variant.
checkUsernameAvailability(username, ok) ==
    IF backend = "relational"
      THEN IF ~ok THEN FALSE ELSE UsernameMatches(username) = {}
      ELSE IF ~ok THEN TRUE ELSE Cardinality(UsernameMatches(username)) = 0

\* the database trigger on_auth_user_created of the relational variant:
\* a new account gets a profile row carrying the username of the sign-up
on_auth_user_created(userId, username) ==
    profiles \cup {[id |-> userId, username |-> username]}

\* the document variant's store refuses a document id that is in use
DocumentIdTaken_Never(userId) == FALSE
DocumentIdTaken(userId) == \E p \in profiles : p.id = userId

\* the relational profile table: the id must be an account's and no other
\* row may carry the same username
RowRefused(userId, username) ==
    \/ userId \notin accounts
    \/ \E p \in profiles : p.id /= userId /\ p.username = username

\* createProfile(userId, {username}): the outcome and the profiles after it
createProfile(userId, username, ok) ==
    IF backend = "relational"
      THEN IF ~ok \/ RowRefused(userId, username)
             THEN [result |-> ErrBackend, profiles |-> profiles]
             ELSE [result |-> Ok,
                   profiles |-> {p \in profiles : p.id /= userId}
                                  \cup {[id |-> userId, username |-> username]}]
      ELSE IF ~ok \/ DocumentIdTaken(userId)
             THEN [result |-> ErrBackend, profiles |-> profiles]
             ELSE [result |-> Ok,
                   profiles |-> profiles \cup {[id |-> userId, username |-> username]}]

\* updateProfile(userId, {username}): the outcome and the profiles after it
updateProfile(userId, username, ok) ==
    IF ~ok \/ ~(\E p \in profiles : p.id = userId)
         \/ (backend = "relational" /\ RowRefused(userId, username))
      THEN [result |-> ErrBackend, profiles |-> profiles]
      ELSE [result |-> Ok,
            profiles |-> {p \in profiles : p.id /= userId}
                           \cup {[id |-> userId, username |-> username]}]


CheckUsername(username, ok) ==
    /\ authOut' = [op |-> "checkUsernameAvailability", userId |-> "none",
                   username |-> username,
                   available |-> checkUsernameAvailability(username, ok), result |-> Ok]
    /\ UNCHANGED <<backend, currentUser, tzOffset, now, ticks, logs, nextId, calls, logsArg,
                   statsOut, statsPc, profiles, boardArg, boardOut, rankOut, boardPc, ui, shown,
                   accounts, collation, sub, sb>>

\* signUp(email, password, {username}); lookupOk, accountOk and profileOk
\* are whether the username lookup, the account creation and the profile
\* creation went through
SignUp(username, lookupOk, accountOk, profileOk) ==
    /\ accounts /= AuthIds
    /\ LET available == checkUsernameAvailability(username, lookupOk)
           id == CHOOSE u \in AuthIds \ accounts : TRUE
           made == createProfile(id, username, profileOk)
       IN  IF ~available
             THEN /\ authOut' = [op |-> "signUp", userId |-> "none", username |-> username,
                                 available |-> FALSE, result |-> ErrTaken]
                  /\ UNCHANGED <<accounts, profiles>>
           ELSE IF ~accountOk
             THEN /\ authOut' = [op |-> "signUp", userId |-> "none", username |-> username,
                                 available |-> TRUE, result |-> ErrAccount]
                  /\ UNCHANGED <<accounts, profiles>>
           ELSE IF backend = "relational"
             THEN /\ accounts' = accounts \cup {id}
                  /\ profiles' = on_auth_user_created(id, username)
                  /\ authOut' = [op |-> "signUp", userId |-> id, username |-> username,
                                 available |-> TRUE, result |-> Ok]
           ELSE /\ accounts' = accounts \cup {id}
                /\ profiles' = made.profiles
                /\ authOut' = [op |-> "signUp", userId |-> id, username |-> username,
                               available |-> TRUE, result |-> made.result]
    /\ UNCHANGED <<backend, currentUser, tzOffset, now, ticks, logs, nextId, calls, logsArg,
                   statsOut, statsPc, boardArg, boardOut, rankOut, boardPc, ui, shown, collation, sub, sb>>

CreateProfile(userId, username, ok) ==
    /\ LET made == createProfile(userId, username, ok)
       IN  /\ profiles' = made.profiles
           /\ authOut' = [op |-> "createProfile", userId |-> userId, username |-> username,
                          available |-> FALSE, result |-> made.result]
    /\ UNCHANGED <<backend, currentUser, tzOffset, now, ticks, logs, nextId, calls, logsArg,
                   statsOut, statsPc, boardArg, boardOut, rankOut, boardPc, ui, shown,
                   accounts, collation, sub, sb>>

UpdateProfile(userId, username, ok) ==
    /\ LET made == updateProfile(userId, username, ok)
       IN  /\ profiles' = made.profiles
           /\ authOut' = [op |-> "updateProfile", userId |-> userId, username |-> username,
                          available |-> FALSE, result |-> made.result]
    /\ UNCHANGED <<backend, currentUser, tzOffset, now, ticks, logs, nextId, calls, logsArg,
                   statsOut, statsPc, boardArg, boardOut, rankOut, boardPc, ui, shown,
                   accounts, collation, sub, sb>>

\* one account with its profile, an empty reading log
InitAuth ==
    /\ backend \in Backends
    /\ collation \in {"sensitive", "insensitive"}
    /\ sub = NoSub
    /\ sb = NoSdk
    /\ accounts = {"u1"}
    /\ profiles = {[id |-> "u1", username |-> "ann"]}
    /\ authOut = NoAuthOut
    /\ currentUser = [c \in Clients |-> "u1"]
    /\ tzOffset = 0
    /\ now = StartDay * MinutesPerDay
    /\ ticks = 0
    /\ logs = {}
    /\ nextId = 1
    /\ calls = [c \in Clients |-> IdleCall]
    /\ logsArg = <<>>
    /\ statsOut = NoStats
    /\ statsPc = "idle"
    /\ ui = [c \in Clients |-> IdleUi]
    /\ shown = [c \in Clients |-> EmptyPage]
    /\ boardArg = NoBoardArg
    /\ boardOut = <<>>
    /\ rankOut = 0
    /\ boardPc = "idle"

NextAuth ==
    \/ \E n \in Usernames, ok \in BOOLEAN : CheckUsername(n, ok)
    \/ \E n \in Usernames, lookupOk, accountOk, profileOk \in BOOLEAN :
          SignUp(n, lookupOk, accountOk, profileOk)
    \/ \E u \in AuthIds, n \in Usernames, ok \in BOOLEAN : CreateProfile(u, n, ok)
    \/ \E u \in AuthIds, n \in Usernames, ok \in BOOLEAN : UpdateProfile(u, n, ok)

SpecAuth == InitAuth /\ [][NextAuth]_vars

\* ------------------------------------------------------ backend substitution
\* A single client issues its calls one after another, with integer page
\* counts, on the variant the program started with.  At any point one call
\* is singled out and run on that variant, then the store is set back to
\* what it was before the call, the other variant is put in its place and
\* the same call is run again.

IntegerPages == {p \in PageInputs : IsInteger(p)}
\* the entries of a store as (user, date, pages)
Entries(S) == {<<l.user_id, l.log_date, l.pages_read>> : l \in S}

RunCalls ==
    /\ sub.phase = "run"
    /\ \/ \E d \in DateInputs, p \in IntegerPages : AddStart("c1", d, p)
       \/ AddInsert("c1")
       \/ \E id \in IdInputs("c1"), p \in IntegerPages : UpdateReadingLog("c1", id, p)
       \/ \E id \in IdInputs("c1") : DeleteReadingLog("c1", id)
       \/ Tick

\* the call to try on both variants, and the store it starts from
SingleOut(kind, d, id, p) ==
    /\ sub.phase = "run"
    /\ calls["c1"].pc = "idle"
    /\ sub' = [NoSub EXCEPT !.phase = "first", !.kind = kind, !.logDate = d, !.logId = id,
                            !.pages = p, !.logs = logs, !.nextId = nextId]
    /\ calls' = [calls EXCEPT !["c1"] = IdleCall]
    /\ UNCHANGED <<backend, currentUser, tzOffset, now, ticks, logs, nextId, logsArg, statsOut,
                   statsPc, profiles, boardArg, boardOut, rankOut, boardPc, ui, shown, authVars, sb>>

\* the singled-out call, on the variant in place
RunSingled ==
    /\ sub.phase \in {"first", "second"}
    /\ \/ /\ sub.kind = "addReadingLog"
          /\ calls["c1"].result = None
          /\ AddStart("c1", sub.logDate, sub.pages)
       \/ /\ sub.kind = "addReadingLog"
          /\ AddInsert("c1")
       \/ /\ sub.kind = "updateReadingLog"
          /\ calls["c1"].result = None
          /\ UpdateReadingLog("c1", sub.logId, sub.pages)
       \/ /\ sub.kind = "deleteReadingLog"
          /\ calls["c1"].result = None
          /\ DeleteReadingLog("c1", sub.logId)

Returned == calls["c1"].pc = "idle" /\ calls["c1"].result /= None

\* the other variant takes the place of the first, on the store the call
\* started from; what the first variant answered and left is kept
Substitute ==
    /\ sub.phase = "first"
    /\ Returned
    /\ sub' = [sub EXCEPT !.phase = "second", !.result = calls["c1"].result,
                          !.after = Entries(logs),
                          !.stats = calculateStats(getUserLogs(currentUser["c1"], TRUE))]
    /\ backend' = CHOOSE b \in Backends : b /= backend
    /\ logs' = sub.logs
    /\ nextId' = sub.nextId
    /\ calls' = [calls EXCEPT !["c1"] = IdleCall]
    /\ UNCHANGED <<currentUser, tzOffset, now, ticks, logsArg, statsOut, statsPc, profiles,
                   boardArg, boardOut, rankOut, boardPc, ui, shown, authVars, sb>>

NextSub ==
    \/ RunCalls
    \/ \E d \in DateInputs, p \in IntegerPages : SingleOut("addReadingLog", d, 0, p)
    \/ \E id \in IdInputs("c1"), p \in IntegerPages : SingleOut("updateReadingLog", 0, id, p)
    \/ \E id \in IdInputs("c1") : SingleOut("deleteReadingLog", 0, id, NaN)
    \/ RunSingled
    \/ Substitute

SpecSub == Init /\ [][NextSub]_vars

\* ------------------------------------------- one page, handlers overlapping
\* The handlers of one dashboard page are async functions: while one waits
\* for the backend the page takes further events.  The two slots of ui and
\* calls stand here for two activations of handlers on the same page, of
\* the same signed-in user.  The Add Entry button is the submit control of
\* the log form: while it is disabled the form cannot be submitted.  The
\* edit form and the delete links have no such state in the code.
LogBtnDisabled == \E k \in Clients : ui[k].logBtnDisabled
\* what is typed on the page: nothing valid, one page, a thousand pages
PagePages == {Num(0), Num(1), Num(1000)}

NextPage ==
    \/ \E c \in Clients, v \in PagePages :
          ~LogBtnDisabled /\ HandleLogSubmit(c, getToday, v)
    \/ \E c \in Clients : \E id \in IdInputs(c), v \in PagePages : HandleEditSubmit(c, id, v)
    \/ \E c \in Clients : \E id \in IdInputs(c) : ConfirmDeleteLog(c, id)
    \/ \E c \in Clients : AwaitedAddStart(c)
    \/ \E c \in Clients : AwaitedAddInsert(c)
    \/ \E c \in Clients : AwaitedUpdate(c)
    \/ \E c \in Clients : AwaitedDelete(c)
    \/ \E c \in Clients : Settle(c)
    \/ \E c \in Clients : RefreshLogs(c, TRUE)
    \/ \E c \in Clients : RefreshLeaderboard(c, TRUE)

\* both activations belong to the page of one signed-in user
InitPage == Init /\ currentUser["c2"] = "u1" /\ tzOffset = 0

SpecPage == InitPage /\ [][NextPage]_vars

\* ------------------------------------------------- a long reading history
\* The page of a user with about as many entries as getUserLogs returns,
\* one entry a day up to today: the user edits or deletes the latest or the
\* oldest entry and the page refreshes.
InitHistory ==
    /\ ExtInit
    /\ backend \in Backends
    /\ currentUser = [c \in Clients |-> "u1"]
    /\ tzOffset \in TzOffsets
    /\ now = StartDay * MinutesPerDay
    /\ ticks = 0
    /\ \E n \in {UserLogsLimit - 1, UserLogsLimit, UserLogsLimit + 1} :
          /\ logs = {[id |-> i, user_id |-> "u1", log_date |-> StartDay + 1 - i,
                      pages_read |-> 1] : i \in 1 .. n}
          /\ nextId = n + 1
    /\ calls = [c \in Clients |-> IdleCall]
    /\ logsArg = <<>>
    /\ statsOut = NoStats
    /\ statsPc = "idle"

NextHistory ==
    \/ \E id \in {1, nextId - 1}, v \in PagePages : HandleEditSubmit("c1", id, v)
    \/ \E id \in {1, nextId - 1} : ConfirmDeleteLog("c1", id)
    \/ AwaitedUpdate("c1")
    \/ AwaitedDelete("c1")
    \/ Settle("c1")
    \/ \E ok \in BOOLEAN : RefreshLogs("c1", ok)
    \/ \E ok \in BOOLEAN : RefreshLeaderboard("c1", ok)

SpecHistory == InitHistory /\ [][NextHistory]_vars

\* ------------------------------------------------------ the lookup failing
\* the lookup of addReadingLog fails and the call is turned down
AddStartLookupFailed_Throws(c, d, p) ==
    /\ calls[c].pc = "idle"
    /\ IF ~isDateInRange(d, 3)
         THEN calls' = [calls EXCEPT ![c] = [IdleCall EXCEPT !.result = ErrDateRange]]
       ELSE IF PagesRejected(p)
         THEN calls' = [calls EXCEPT ![c] = [IdleCall EXCEPT !.result = ErrPages]]
       ELSE calls' = [calls EXCEPT ![c] = [IdleCall EXCEPT !.result = ErrBackend]]
    /\ UNCHANGED <<backend, currentUser, tzOffset, now, ticks, logs, nextId, logsArg, statsOut, statsPc, extVars>>
\* addReadingLog up to the answer of its lookup, when the query of
\* getLogByDate fails (network or service error): getLogByDate logs or
\* swallows the error and returns null, so existingLog is null and the
\* call goes on to its insert
AddStartLookupFailed(c, d, p) ==
    /\ calls[c].pc = "idle"
    /\ IF ~isDateInRange(d, 3)
         THEN calls' = [calls EXCEPT ![c] = [IdleCall EXCEPT !.result = ErrDateRange]]
       ELSE IF PagesRejected(p)
         THEN calls' = [calls EXCEPT ![c] = [IdleCall EXCEPT !.result = ErrPages]]
       ELSE /\ nextId <= MaxLogs
            /\ calls' = [calls EXCEPT ![c] = [pc |-> "insert", userId |-> currentUser[c],
                                              logDate |-> d, pagesRead |-> p, result |-> None]]
    /\ UNCHANGED <<backend, currentUser, tzOffset, now, ticks, logs, nextId, logsArg, statsOut, statsPc, extVars>>

\* one client, one call at a time, the lookup answering or failing
NextFail ==
    \/ NextSeq
    \/ \E d \in DateInputs, p \in PageInputs : AddStartLookupFailed("c1", d, p)

SpecFail == Init /\ [][NextFail]_vars

\* ------------------------------------------------------------ getSupabase
\* The SDK script loads or fails once; getSupabase returns a promise that
\* settles at once or waits for the script's event or its own timeout.

\* what the listeners of the waiting calls do when an event is dispatched:
\* cleanup(), then resolve / reject, which settles a promise still pending
Dispatched(outcome, client) ==
    [sb EXCEPT !.promise = [k \in 1 .. MaxCalls |->
                               IF sb.listening[k] /\ sb.promise[k] = "pending"
                                 THEN outcome ELSE sb.promise[k]],
               !.value = [k \in 1 .. MaxCalls |->
                               IF sb.listening[k] /\ sb.promise[k] = "pending"
                                    /\ outcome = "resolved"
                                 THEN client ELSE sb.value[k]],
               !.listening = [k \in 1 .. MaxCalls |-> FALSE]]

\* supabaseScript.onload; hasCreateClient is whether the script defined
\* window.supabase.createClient
ScriptLoad(hasCreateClient) ==
    /\ sb.script = "loading"
    /\ sb' = IF hasCreateClient
               THEN [Dispatched("resolved", "client") EXCEPT !.script = "loaded",
                                                             !.supabase = "client"]
               ELSE [sb EXCEPT !.script = "loaded"]
    /\ UNCHANGED <<backend, currentUser, tzOffset, now, ticks, logs, nextId, calls, logsArg,
                   statsOut, statsPc, profiles, boardArg, boardOut, rankOut, boardPc, ui, shown,
                   authVars, sub>>

\* supabaseScript.onerror
ScriptError ==
    /\ sb.script = "loading"
    /\ sb' = [Dispatched("rejected", "null") EXCEPT !.script = "failed"]
    /\ UNCHANGED <<backend, currentUser, tzOffset, now, ticks, logs, nextId, calls, logsArg,
                   statsOut, statsPc, profiles, boardArg, boardOut, rankOut, boardPc, ui, shown,
                   authVars, sub>>

\* getSupabase(), the k-th call of the page
GetSupabase(k) ==
    /\ sb.promise[k] = "none"
    /\ sb' = IF sb.supabase /= "null"
               THEN [sb EXCEPT !.promise[k] = "resolved", !.value[k] = sb.supabase]
             ELSE IF sb.script = "failed"
               THEN [sb EXCEPT !.promise[k] = "rejected"]
             ELSE [sb EXCEPT !.promise[k] = "pending", !.listening[k] = TRUE,
                             !.timer[k] = TRUE]
    /\ UNCHANGED <<backend, currentUser, tzOffset, now, ticks, logs, nextId, calls, logsArg,
                   statsOut, statsPc, profiles, boardArg, boardOut, rankOut, boardPc, ui, shown,
                   authVars, sub>>

\* the timeout never rejects
Timeout_NoReject(k) ==
    /\ sb.timer[k]
    /\ sb' = [sb EXCEPT !.timer[k] = FALSE, !.listening[k] = FALSE]
    /\ UNCHANGED <<backend, currentUser, tzOffset, now, ticks, logs, nextId, calls, logsArg,
                   statsOut, statsPc, profiles, boardArg, boardOut, rankOut, boardPc, ui, shown,
                   authVars, sub>>
\* the setTimeout callback of the k-th call, after 10 seconds: cleanup(),
\* then reject when there is no client
Timeout(k) ==
    /\ sb.timer[k]
    /\ sb' = [sb EXCEPT !.timer[k] = FALSE, !.listening[k] = FALSE,
                        !.promise[k] = IF sb.supabase = "null" /\ sb.promise[k] = "pending"
                                         THEN "rejected" ELSE sb.promise[k]]
    /\ UNCHANGED <<backend, currentUser, tzOffset, now, ticks, logs, nextId, calls, logsArg,
                   statsOut, statsPc, profiles, boardArg, boardOut, rankOut, boardPc, ui, shown,
                   authVars, sub>>

NextSdk ==
    \/ \E hasCreateClient \in BOOLEAN : ScriptLoad(hasCreateClient)
    \/ ScriptError
    \/ \E k \in 1 .. MaxCalls : GetSupabase(k)
    \/ \E k \in 1 .. MaxCalls : Timeout(k)

\* a timer that was set fires
FairSdk ==
    /\ Init
    /\ [][NextSdk]_vars
    /\ \A k \in 1 .. MaxCalls : WF_vars(Timeout(k))

\* ================================================================ claims
NoDuplicates == \A l, m \in logs : (l.user_id = m.user_id /\ l.log_date = m.log_date) => l = m
ValidPageCount(p) == IsInteger(p) /\ IntOf(p) >= 1 /\ IntOf(p) <= 1000

C2_ConstraintBackedUnique ==
    /\ [](backend = "relational" => NoDuplicates)
    /\ [][\A c \in Clients :
            (/\ backend = "relational"
             /\ calls[c].pc = "insert"
             /\ calls'[c].pc = "idle"
             /\ IsInteger(calls[c].pagesRead)
             /\ LogsFor(calls[c].userId, calls[c].logDate) /= {})
                => (calls'[c].result = ErrDupConstraint /\ logs' = logs)]_vars
C2_Witness ==
    /\ backend = "relational"
    /\ \E c \in Clients : calls[c].result = ErrDupConstraint
    /\ logs /= {}

\* C3: document-store variant: createDocument never refuses an entry for a
\* (user, date) that already has one, so every call that passed its lookup
\* stores its entry and reports no error; the state with two entries for one
\* (user, date) and two successful calls is the witness.
C3_ManualCheckRace ==
    [][\A c \in Clients :
            (/\ backend = "document"
             /\ calls[c].pc = "insert"
             /\ calls'[c].pc = "idle"
             /\ ~TypeViolation(calls[c].pagesRead))
                => (/\ calls'[c].result = Ok
                    /\ \E l \in logs' : /\ l \notin logs
                                        /\ l.user_id = calls[c].userId
                                        /\ l.log_date = calls[c].logDate)]_vars
C3_Witness ==
    /\ backend = "document"
    /\ \A c \in Clients : calls[c].pc = "idle" /\ calls[c].result = Ok
    /\ \E l, m \in logs : l /= m /\ l.user_id = m.user_id /\ l.log_date = m.log_date

\* C4: every duplicate-date outcome of addReadingLog carries the message of
\* the pre-check, whichever layer caught the duplicate.
C4_SameDuplicateMessage ==
    \A c \in Clients :
        calls[c].result \in {ErrDupPreCheck, ErrDupConstraint} => calls[c].result = ErrDupPreCheck

\* C5: isDateInRange(date, 3) is true exactly for today-3 .. today, at every
\* time-zone offset and time of day.
C5_WindowExact ==
    \A d \in (getToday - 5) .. (getToday + 2) :
        isDateInRange(d, 3) <=> (getToday - 3 <= d /\ d <= getToday)

\* C6: an addReadingLog whose page count is not an integer in [1, 1000]
\* never ends in success.
C6_NonIntegerRejected ==
    [][\A c \in Clients :
            (calls[c].pc = "insert" /\ calls'[c].pc = "idle" /\ ~ValidPageCount(calls[c].pagesRead))
                => calls'[c].result /= Ok]_vars

\* C7: every entry written has pages_read in 1 .. 1000, and every entry
\* created has a log_date within [creation day - 3, creation day].
C7_StoreInvariant ==
    [][\A l \in logs' :
            l \notin logs =>
                /\ l.pages_read \in 1 .. 1000
                /\ (\A m \in logs : m.id /= l.id) =>
                        (LocalDay(now) - 3 <= l.log_date /\ l.log_date <= LocalDay(now))]_vars

StatDates == LoggedDates(logsArg)
\* the length of the run of consecutive days in D that ends at day a
RunEndingAt(D, a) ==
    CHOOSE k \in 0 .. Cardinality(D) : (\A j \in 0 .. (k - 1) : (a - j) \in D) /\ (a - k) \notin D
\* the length of the longest run of consecutive days in D
LongestRun(D) ==
    CHOOSE n \in 0 .. Cardinality(D) :
        /\ n > 0 => \E a \in D : \A j \in 0 .. (n - 1) : (a + j) \in D
        /\ ~(\E a \in D : \A j \in 0 .. n : (a + j) \in D)

\* C8: currentStreak is the length of the run of consecutive logged days
\* that ends at today when today is logged and at yesterday otherwise.
C8_CurrentStreak ==
    statsPc = "returned" =>
        statsOut.currentStreak =
            RunEndingAt(StatDates, IF LocalDay(now) \in StatDates THEN LocalDay(now) ELSE LocalDay(now) - 1)
C8_Witness ==
    /\ statsPc = "returned"
    /\ LocalDay(now) \notin StatDates
    /\ statsOut.currentStreak = 2

\* C9: for a non-empty array in any order, longestStreak is the length of
\* the longest run of consecutive days among the distinct logged dates.
C9_LongestStreak ==
    (statsPc = "returned" /\ Len(logsArg) > 0) => statsOut.longestStreak = LongestRun(StatDates)

\* C10: avgPages is totalPages / daysLogged rounded to the nearest integer,
\* halves upward, with totalPages the sum of pages_read and daysLogged the
\* number of entries; an empty array gives 0 in all five fields.
PagesByValue ==
    LET count(p) == Cardinality({i \in 1 .. Len(logsArg) : logsArg[i].pages_read = p})
    IN  1 * count(1) + 2 * count(2)
C10_AvgPages ==
    statsPc = "returned" =>
        IF Len(logsArg) = 0
          THEN statsOut = [totalPages |-> 0, daysLogged |-> 0, avgPages |-> 0,
                           currentStreak |-> 0, longestStreak |-> 0]
          ELSE /\ statsOut.totalPages = PagesByValue
               /\ statsOut.daysLogged = Len(logsArg)
               /\ 2 * statsOut.avgPages * statsOut.daysLogged - statsOut.daysLogged <= 2 * statsOut.totalPages
               /\ 2 * statsOut.totalPages < 2 * statsOut.avgPages * statsOut.daysLogged + statsOut.daysLogged
C10_Witness ==
    /\ statsPc = "returned"
    /\ statsOut.daysLogged = 2
    /\ statsOut.totalPages = 3
    /\ statsOut.avgPages = 2

\* first day of the current local month, and a user's pages in that month
FirstOfMonth == MonthDays * (getToday \div MonthDays)
RECURSIVE PagesOf(_)
PagesOf(S) ==
    IF S = {} THEN 0
    ELSE LET l == CHOOSE l \in S : TRUE IN l.pages_read + PagesOf(S \ {l})
MonthTotal(u) == PagesOf({l \in logs : l.user_id = u /\ l.log_date >= FirstOfMonth})
MonthUsers == {l.user_id : l \in {m \in logs : m.log_date >= FirstOfMonth}}
\* three users with 30, 50 and 50 pages this month and nobody else
ThreeUserExample(A, B, C) ==
    /\ MonthUsers = {A, B, C}
    /\ A /= B /\ A /= C /\ B /= C
    /\ MonthTotal(A) = 30 /\ MonthTotal(B) = 50 /\ MonthTotal(C) = 50

\* C11: getLeaderboard(N) returns at most N entries, one per distinct user,
\* in order of non-increasing totalPages, with rank fields 1, 2, ..., k in
\* list order; for users A(30), B(50), C(50) and N = 2 it returns B and C
\* in some order with ranks 1 and 2 and leaves A out.
C11_LeaderboardShape ==
    boardPc = "leaderboard" =>
        /\ Len(boardOut) <= boardArg.limit
        /\ \A i, j \in 1 .. Len(boardOut) :
               /\ i /= j => boardOut[i].userId /= boardOut[j].userId
               /\ i < j => boardOut[i].totalPages >= boardOut[j].totalPages
        /\ \A i \in 1 .. Len(boardOut) : boardOut[i].rank = i
        /\ \A A, B, C \in BoardUsers :
               (ThreeUserExample(A, B, C) /\ boardArg.limit = 2 /\ boardArg.ok) =>
                   /\ Len(boardOut) = 2
                   /\ {boardOut[1].userId, boardOut[2].userId} = {B, C}
\* the three-user example has been asked with N = 2 and answered
C11_Witness ==
    /\ boardPc = "leaderboard"
    /\ boardArg.limit = 2 /\ boardArg.ok
    /\ \E A, B, C \in BoardUsers : ThreeUserExample(A, B, C)
    /\ Len(boardOut) = 2
    /\ boardOut[1].rank = 1 /\ boardOut[2].rank = 2

\* C12: each user's totalPages in the result of getLeaderboard is the sum of
\* pages_read over all of that user's stored entries dated on or after the
\* first day of the current month, however many entries the store holds;
\* entries dated before that day contribute nothing.
C12_MonthTotals ==
    boardPc = "leaderboard" =>
        \A i \in 1 .. Len(boardOut) : boardOut[i].totalPages = MonthTotal(boardOut[i].userId)

\* users of the month with more pages than u, and with at least as many
MonthAbove(u) == {v \in MonthUsers : MonthTotal(v) > MonthTotal(u)}
MonthNotBelow(u) == {v \in MonthUsers : MonthTotal(v) >= MonthTotal(u)}

\* C13: a user with entries this month whose profile cannot be resolved is
\* listed by getLeaderboard all the same, under a placeholder name, at the
\* position their total gives them (whenever that position is within the
\* limit); this in either variant.
C13_UnresolvedProfileListed ==
    (boardPc = "leaderboard" /\ boardArg.ok) =>
        \A u \in MonthUsers :
            (getProfile(u) = NoProfile /\ Cardinality(MonthNotBelow(u)) <= boardArg.limit) =>
                \E i \in (Cardinality(MonthAbove(u)) + 1) .. Cardinality(MonthNotBelow(u)) :
                    /\ i <= Len(boardOut)
                    /\ boardOut[i].userId = u
                    /\ boardOut[i].username = UnknownUser

\* the leaderboard slice of the size the variant's getUserRank asks for,
\* and the places of the asked user in a leaderboard
RankBoard == getLeaderboard(IF backend = "relational" THEN 100 ELSE 50, boardArg.ok)
RankPositions(lb) == {i \in 1 .. Len(lb) : lb[i].userId = boardArg.userId}

\* C14: getUserRank(userId) returns the user's 1-based position in the
\* leaderboard slice it fetches (100 entries in the relational variant, 50
\* in the document variant) and 0 when the user is not in that slice, be it
\* that the user has entries this month but the slice is full without them
\* or that the fetch of the leaderboard fails.
C14_RankInSlice ==
    boardPc = "rank" =>
        LET lb == RankBoard
            at == RankPositions(lb)
        IN  /\ \A i \in at : rankOut = i
            /\ at = {} => rankOut = 0
            /\ ~boardArg.ok => rankOut = 0
\* a user with entries this month is outside the full slice and gets 0
C14_Witness ==
    /\ boardPc = "rank"
    /\ boardArg.ok
    /\ rankOut = 0
    /\ boardArg.userId \in MonthUsers
    /\ LET lb == RankBoard
       IN  /\ Len(lb) = (IF backend = "relational" THEN 100 ELSE 50)
           /\ RankPositions(lb) = {}

\* a page count outside [1, 1000]
OutsidePages(p) == p.nan \/ p.h < 2 * 1 \/ p.h > 2 * 1000

\* C15: updateReadingLog(logId, pages) ends with an error and writes
\* nothing when pages is outside [1, 1000]; when it succeeds, the entry
\* with that id keeps its user_id and log_date, every other entry is
\* unchanged and no entry appears or disappears; the date of the entry is
\* never checked against the window, however old the entry.
C15_UpdateFrame ==
    [][\A id \in IdInputs("c1"), p \in PageInputs :
          UpdateReadingLog("c1", id, p) =>
              /\ OutsidePages(p) => (logs' = logs /\ calls'["c1"].result \notin {Ok, None})
              /\ calls'["c1"].result /= ErrDateRange
              /\ calls'["c1"].result = Ok =>
                    /\ \A l \in logs : l.id /= id => l \in logs'
                    /\ \E l \in logs : l.id = id /\ [l EXCEPT !.pages_read = IntOf(parseInt(p))] \in logs'
                    /\ Cardinality(logs') = Cardinality(logs)
              /\ calls'["c1"].result /= Ok => logs' = logs]_vars
\* an entry dated before the window has been given a new page count
C15_Witness ==
    /\ calls["c1"].result = Ok
    /\ \E l \in logs : ~isDateInRange(l.log_date, 3) /\ l.log_date < getToday
                       /\ l.pages_read \notin BoardPages

\* the steps of the round trip: a successful addReadingLog(u, d, p), after
\* which getLogByDate(u, d) returns an entry with pages p
AddThenFetch ==
    (calls["c1"].pc = "insert" /\ calls'["c1"].result = Ok) =>
        \A u \in {calls["c1"].userId}, d \in {calls["c1"].logDate}, p \in {calls["c1"].pagesRead} :
            /\ getLogByDate(u, d)' /= NoLog
            /\ Num(getLogByDate(u, d)'.pages_read) = p
\* updateReadingLog(id, q) of a stored entry succeeds for a page count in
\* [1, 1000], and after a success getLogByDate returns the same entry with
\* pages q
UpdateThenFetch ==
    \A l \in logs, q \in PageInputs :
        UpdateReadingLog("c1", l.id, q) =>
            /\ ValidPageCount(q) => calls'["c1"].result = Ok
            /\ calls'["c1"].result = Ok =>
                   /\ getLogByDate(l.user_id, l.log_date)'.id = l.id
                   /\ Num(getLogByDate(l.user_id, l.log_date)'.pages_read) = q
\* deleteReadingLog(id) of a stored entry succeeds, after which
\* getLogByDate returns null and no duplicate stands in the way of a new
\* addReadingLog for that user and date
DeleteThenFetch ==
    \A l \in logs :
        DeleteReadingLog("c1", l.id) =>
            /\ calls'["c1"].result = Ok
            /\ getLogByDate(l.user_id, l.log_date)' = NoLog
            /\ ~UniqueViolation(l.user_id, l.log_date)'

\* C16: round trip for a single entry, in this order: addReadingLog(u, d, p)
\* succeeds; getLogByDate(u, d) returns an entry with pages p;
\* updateReadingLog(id, q) succeeds; getLogByDate(u, d) returns the same
\* entry with pages q; deleteReadingLog(id) succeeds; getLogByDate(u, d)
\* returns null and a new addReadingLog(u, d, r) is accepted.
C16_RoundTrip == [][AddThenFetch /\ UpdateThenFetch /\ DeleteThenFetch]_vars

\* C17: in the dashboard, a re-fetch of the logs, statistics and
\* leaderboard after a create, edit or delete is issued only once the
\* backend call of that mutation has resolved successfully; what the page
\* displays changes in no other step (never before the acknowledgement);
\* and when the mutation fails the handler ends without a re-fetch and the
\* displayed logs and statistics stay as they were.
C17_RefetchAfterAck ==
    [][\A c \in Clients :
          /\ (ui'[c].pc = "refreshLogs" /\ ui[c].pc /= "refreshLogs") =>
                 (ui[c].pc = "await" /\ calls[c].pc = "idle" /\ calls[c].result = Ok)
          /\ (ui'[c].pc = "refreshLeaderboard" /\ ui[c].pc /= "refreshLeaderboard") =>
                 ui[c].pc = "refreshLogs"
          /\ shown'[c] /= shown[c] => ui[c].pc \in {"refreshLogs", "refreshLeaderboard"}
          /\ (ui[c].pc = "await" /\ calls[c].pc = "idle" /\ calls[c].result \notin {None, Ok}
                /\ ui'[c] /= ui[c]) =>
                 (ui'[c].pc = "idle" /\ shown'[c] = shown[c])]_vars
\* a mutation has failed on a page that shows the entry of an earlier,
\* acknowledged one: the page is idle again, shows the error and still the
\* same one entry
C17_Witness ==
    /\ ui["c1"].pc = "idle"
    /\ ui["c1"].toast = ErrDupPreCheck
    /\ Len(shown["c1"].userLogs) = 1
    /\ shown["c1"].stats.daysLogged = 1
    /\ Cardinality(logs) = 1

\* ---- C18, C19: usernames and profiles
\* y differs from x only in letter case
OnlyCaseDiffers(x, y) == x /= y /\ toLowerCase(x) = toLowerCase(y)
TakenButForCase(username) == \E p \in profiles : OnlyCaseDiffers(p.username, username)

\* C18: when a profile's username differs from the asked one only in letter
\* case, checkUsernameAvailability answers false, and signUp throws
\* 'Username is already taken' and creates neither an account nor a
\* profile; in both backend variants.
C18_CaseInsensitiveUsernames ==
    /\ [](authOut.op = "checkUsernameAvailability" /\ TakenButForCase(authOut.username)
            => ~authOut.available)
    /\ [][(authOut'.op = "signUp" /\ authOut' /= authOut /\ TakenButForCase(authOut'.username))
            => (/\ authOut'.result = ErrTaken
                /\ accounts' = accounts
                /\ profiles' = profiles)]_vars

\* C19: the profile store holds at most one profile per user id
C19_OneProfilePerId == \A p, q \in profiles : p.id = q.id => p = q

\* createProfile for an id that has a profile was refused by the document
\* store, and the id still has its one profile, under another username
C19_Witness ==
    /\ backend = "document"
    /\ authOut.op = "createProfile"
    /\ authOut.result = ErrBackend
    /\ Cardinality({p \in profiles : p.id = authOut.userId}) = 1
    /\ getProfile(authOut.userId).username /= authOut.username

\* ---- C20: backend substitution
\* C20: after any sequence of calls issued one at a time by a single client
\* with integer page counts, a call is accepted by one variant exactly if it
\* is accepted by the other, and the two variants end with the same
\* (user, date, pages) entries and the same statistics.
C20_BackendSubstitution ==
    (sub.phase = "second" /\ Returned)
        => /\ (calls["c1"].result = Ok) <=> (sub.result = Ok)
           /\ Entries(logs) = sub.after
           /\ calculateStats(getUserLogs(currentUser["c1"], TRUE)) = sub.stats

\* ---- C21: one dashboard mutation in flight
\* a handler of the page waits for its backend mutation
InFlight(c) == ui[c].pc = "await"
\* C21: at any time at most one create, edit or delete started from the
\* page is in flight, and while a mutation is in flight the control that
\* started it is disabled.
C21_OneMutationInFlight ==
    /\ Cardinality({c \in Clients : InFlight(c)}) <= 1
    /\ \A c \in Clients : InFlight(c) => LogBtnDisabled

\* ---- C22: missing records
NoEntryWithId(id) == \A l \in logs : l.id /= id
\* C22: getLogByDate and getProfile answer null for a missing record, and
\* updateReadingLog and deleteReadingLog called with an id that matches no
\* stored entry end with an error and leave the store unchanged, in both
\* backend variants.
C22_MissingRecords ==
    /\ [](/\ \A u \in Users, d \in DateInputs : LogsFor(u, d) = {} => getLogByDate(u, d) = NoLog
          /\ \A u \in {UserIds[i] : i \in 1 .. 3} : (\A p \in profiles : p.id /= u) => getProfile(u) = NoProfile)
    /\ [][\A c \in Clients : \A id \in IdInputs(c) :
            (NoEntryWithId(id)
               /\ (DeleteReadingLog(c, id) \/ \E p \in PageInputs : UpdateReadingLog(c, id, p)))
            => (calls'[c].result \notin {Ok, None} /\ logs' = logs)]_vars

\* ---- C23: a rejected addReadingLog
\* a number below 1 or above 1000
NumberOutside(p) == ~p.nan /\ OutsidePages(p)
\* C23: an addReadingLog that throws for the date, the page count or the
\* entry that already exists issues no insert and leaves the store
\* unchanged; the date check and the page check come before the lookup, so
\* the existing-entry error is only given for a date inside the window and
\* a page count in [1, 1000], and the page error only for a date inside
\* the window.
C23_RejectedAddWritesNothing ==
    [][\A c \in Clients, d \in DateInputs, p \in PageInputs :
          (calls'[c] /= calls[c] /\ AddStart(c, d, p)) =>
              /\ calls'[c].result \in {ErrDateRange, ErrPages, ErrDupPreCheck}
                    => (calls'[c].pc = "idle" /\ logs' = logs /\ nextId' = nextId)
              /\ ~isDateInRange(d, 3) => calls'[c].result = ErrDateRange
              /\ (isDateInRange(d, 3) /\ NumberOutside(p)) => calls'[c].result = ErrPages
              /\ calls'[c].result = ErrPages => isDateInRange(d, 3)
              /\ calls'[c].result = ErrDupPreCheck
                    => (isDateInRange(d, 3) /\ ~NumberOutside(p) /\ LogsFor(currentUser[c], d) /= {})
              /\ calls'[c].pc = "insert" => LogsFor(currentUser[c], d) = {}]_vars
\* an add was turned down for its date while the user has an entry that
\* has fallen out of the window
C23_Witness ==
    \E c \in Clients :
        /\ calls[c].result = ErrDateRange
        /\ \E l \in logs : l.user_id = currentUser[c] /\ ~isDateInRange(l.log_date, 3)

\* ---- C24: the two streaks
\* C24: for every log collection, one with two entries for the same date
\* included, calculateStreaks returns longestStreak >= currentStreak.
C24_LongestAtLeastCurrent ==
    statsPc = "returned" => statsOut.longestStreak >= statsOut.currentStreak

\* ---- C25: the statistics shown
\* all entries the backend stores for a user, latest date first
AllLogsOf(userId) ==
    LET rows == StoreOrder({l \in logs : l.user_id = userId})
    IN  OrderDescFrom(rows, 1, Len(rows), <<>>)
\* C25: after refreshLogs has completed with the answer of getUserLogs, the
\* statistics shown equal calculateStats of all entries the backend stores
\* for the current user, however many there are.
C25_StatsOfAllEntries ==
    (ui["c1"].pc = "refreshLeaderboard"
        /\ shown["c1"].userLogs = getUserLogs(currentUser["c1"], TRUE))
      => shown["c1"].stats = calculateStats(AllLogsOf(currentUser["c1"]))

\* ---- C26: the monthly progress
\* C26: the percentage updateProgress displays is between 0 and 100: the
\* distinct logged dates it counts are never more than the days passed
\* this month, whatever the user's logs and the day of the month.
C26_ProgressWithinHundred ==
    /\ shown["c1"].progress >= 0
    /\ shown["c1"].progress <= 100

\* ---- C27: the lookup failing
\* C27: when the lookup inside getLogByDate fails, getLogByDate returns null
\* as it does when no entry exists: addReadingLog's pre-check passes and the
\* insert is issued, also when the user has an entry for the date; the
\* call never ends with the existing-entry error of the pre-check.
C27_FailedLookupPasses ==
    [][\A d \in DateInputs, p \in PageInputs :
          (calls'["c1"] /= calls["c1"] /\ isDateInRange(d, 3) /\ ~PagesRejected(p)
             /\ AddStartLookupFailed("c1", d, p))
             => /\ calls'["c1"].pc = "insert"
                /\ calls'["c1"].logDate = d
                /\ logs' = logs]_vars
\* the document store, one client and no concurrent writer: a second entry
\* has been stored for a (user, date) that had one
C27_Witness ==
    /\ backend = "document"
    /\ calls["c1"].result = Ok
    /\ calls["c2"] = IdleCall
    /\ \E l, m \in logs : l.id /= m.id /\ l.user_id = m.user_id /\ l.log_date = m.log_date

FormTurnsDown(value) == value.nan \/ value.h < 2
\* C29: after a submit that disabled the Add Entry button the button is
\* eventually enabled again, whether addReadingLog succeeded or threw or the
\* refresh after a successful create threw (as long as the store has room
\* for the entry); a submit the local page check turns down never disables
\* the button and issues no backend call.
C29_ButtonEnabledAgain ==
    /\ (ui["c1"].logBtnDisabled /\ nextId <= MaxLogs) ~> ~ui["c1"].logBtnDisabled
    /\ [][\A d \in DateInputs, v \in FormPages :
             (HandleLogSubmit("c1", d, v) /\ FormTurnsDown(v))
                => (/\ ~ui'["c1"].logBtnDisabled
                    /\ ui'["c1"].pc = "idle"
                    /\ calls' = calls /\ logs' = logs)]_vars
\* the create succeeded, the refresh after it threw, and the button is
\* enabled again
C29_Witness ==
    /\ ui["c1"].pc = "idle"
    /\ ~ui["c1"].logBtnDisabled
    /\ ui["c1"].toast = "Failed to add log"
    /\ calls["c1"].result = Ok
    /\ logs /= {}

\* ---- C30: getSupabase
\* C30: every call of getSupabase eventually settles, whatever the order of
\* the call, the script's load or error and the timeout; it resolves only
\* with a client that is not null; it is rejected when the script failed to
\* load, before or after the call, and when there is no client at the
\* timeout; once the client exists every later call resolves with it.
C30_GetSupabaseSettles ==
    /\ \A k \in 1 .. MaxCalls :
          (sb.promise[k] = "pending") ~> (sb.promise[k] \in {"resolved", "rejected"})
    /\ [](\A k \in 1 .. MaxCalls :
            /\ sb.promise[k] = "resolved" => (sb.value[k] = "client" /\ sb.supabase = "client")
            /\ sb.script = "failed" => sb.promise[k] \in {"none", "rejected"}
            /\ (sb.promise[k] /= "none" /\ ~sb.timer[k] /\ sb.supabase = "null")
                  => sb.promise[k] = "rejected")
    /\ [][\A k \in 1 .. MaxCalls :
            (GetSupabase(k) /\ sb.supabase /= "null")
               => (sb'.promise[k] = "resolved" /\ sb'.value[k] = sb.supabase)]_vars
\* a call timed out and was rejected before the script loaded; a call made
\* while the script was loading and one made after it both hold the client
C30_Witness ==
    /\ sb.script = "loaded"
    /\ sb.promise[1] = "rejected"
    /\ sb.promise[2] = "resolved" /\ sb.timer[2]
    /\ sb.promise[3] = "resolved" /\ ~sb.timer[3]
====
